---- MODULE Spec2Model ----
(***************************************************************************)
(* markchap: chapter numbers for Markdown headings and sequence numbers    *)
(* for figures and tables.                                                 *)
(*                                                                         *)
(* The model follows markchap_refactored.py, whose NumberingManager is     *)
(* split into named helpers; markchap.py holds the same statements inline  *)
(* (process_headings, lines 265-296; the figure loop of process_file,      *)
(* lines 402-424).                                                         *)
(*                                                                         *)
(* Strings are sequences of one-character strings, so that str(), join()   *)
(* and split() are modelled by what they do: "1.2" is <<"1", ".", "2">>.   *)
(***************************************************************************)
EXTENDS Integers, Sequences, FiniteSets, TLC

VARIABLES
    pc,                     \* where process_directory / process_file stands
    files_done,             \* files of md_files already handed to process_file
    headings,               \* the Heading records of the current file, in order
    figures,                \* the Figure records of the current file, in order
    state,                  \* NumberingManager.state (a NumberState)
    current_heading_index,  \* local of the figure loop (0-based, as in the code)
    module,                 \* the version that runs: "markchap" or "markchap_refactored"
    last_call,              \* the last call made by a client and what it raised
    document,               \* the token list as md.parse returned it
    tokens,                 \* the token list that _update_tokens rewrites
    excluded_headings,      \* config "excluded_headings": a list of strings
    walk,                   \* the file names of input_dir in the order os.walk yields them
    md_files,               \* local of process_directory: get_markdown_files(input_dir)
    calls,                  \* the process_file calls made so far and how each ended
    success_count,          \* local of process_directory (refactored)
    error_count             \* local of process_directory (refactored)

tokenVars == <<document, tokens, excluded_headings>>

dirVars == <<walk, md_files, calls, success_count, error_count>>

vars == <<pc, files_done, headings, figures, state, current_heading_index,
          module, last_call, tokenVars, dirVars>>

----------------------------------------------------------------------------
(* Bounds of the model *)

MaxFiles == 2       \* files of one process_directory run
MaxHeadings == 2    \* headings of one file (process_file)
MaxFigures == 2     \* figures of one file
MaxSeqLen == 4      \* headings of one direct process_headings call
MaxBlocks == 2      \* blocks (headings, images, comments) of one token list

(* Heading.__post_init__: 1 <= level <= 6 *)
MaxHeadingLevel == 6

Levels == 1..MaxHeadingLevel

FigureTypes == {"figure", "table"}

(* the two versions of the program *)
Modules == {"markchap", "markchap_refactored"}

----------------------------------------------------------------------------
(* Strings *)

Digits == <<"0", "1", "2", "3", "4", "5", "6", "7", "8", "9">>

(* str(num) for num >= 0: the decimal digits *)
RECURSIVE str(_)
str(n) == IF n < 10 THEN <<Digits[n + 1]>>
          ELSE str(n \div 10) \o <<Digits[(n % 10) + 1]>>

(* sep.join(parts) *)
RECURSIVE join(_, _)
join(sep, parts) ==
    IF Len(parts) = 0 THEN <<>>
    ELSE IF Len(parts) = 1 THEN parts[1]
    ELSE parts[1] \o sep \o join(sep, Tail(parts))

DOT == <<".">>

----------------------------------------------------------------------------
(* Records *)

(* NumberState(current_numbers=[]) *)
NumberState(nums, fc, tc) ==
    [current_numbers |-> nums, figure_count |-> fc, table_count |-> tc,
     global_file_count |-> 0]

(* Heading(level, ..., line_number, is_excluded), number "" by default *)
Heading(level, line_number, is_excluded) ==
    [level |-> level, line_number |-> line_number,
     is_excluded |-> is_excluded, number |-> <<>>]

(* Figure(type, ..., line_number), chapter_number "" and figure_number 0 *)
Figure(type, line_number) ==
    [type |-> type, line_number |-> line_number,
     chapter_number |-> <<>>, figure_number |-> 0]

(* Heading.__post_init__: what constructing a Heading of the level raises
   ("" for nothing); the dataclass of markchap.py has no __post_init__ *)
Heading_post_init(mod, level) ==
    IF mod = "markchap_refactored" /\ (level < 1 \/ level > MaxHeadingLevel)
    THEN "ValidationError"
    ELSE ""

(* Figure.__post_init__ that lets every type through *)
Figure_post_init_lenient(mod, type) == ""

(* Figure.__post_init__: what constructing a Figure of the type raises *)
Figure_post_init(mod, type) ==
    IF mod = "markchap_refactored" /\ type \notin FigureTypes
    THEN "ValidationError"
    ELSE ""

----------------------------------------------------------------------------
(* NumberingManager *)

(* _adjust_number_list with the slice one short: current_numbers[:level-1]
   and a fresh slot, which forgets the counter of the level itself *)
adjust_number_list_short(nums, level) ==
    IF Len(nums) < level
    THEN nums \o [i \in 1..(level - Len(nums)) |-> 0]
    ELSE IF Len(nums) > level
    THEN SubSeq(nums, 1, level - 1) \o <<0>>
    ELSE nums

(* _adjust_number_list without the elif branch: a longer list is kept *)
adjust_number_list_keep(nums, level) ==
    IF Len(nums) < level
    THEN nums \o [i \in 1..(level - Len(nums)) |-> 0]
    ELSE nums

(* _adjust_number_list: extend with zeros, or truncate, to length level *)
adjust_number_list(nums, level) ==
    IF Len(nums) < level
    THEN nums \o [i \in 1..(level - Len(nums)) |-> 0]
    ELSE IF Len(nums) > level
    THEN SubSeq(nums, 1, level)
    ELSE nums

(* the counter of the level set to 1 in the place of += 1 *)
increment_level_restart(nums, level) == [nums EXCEPT ![level] = 1]

(* self.state.current_numbers[level - 1] += 1 *)
increment_level(nums, level) == [nums EXCEPT ![level] = @ + 1]

(* _reset_deeper_levels: for i in range(level, len(current_numbers)) *)
reset_deeper_levels(nums, level) ==
    [i \in 1..Len(nums) |-> IF i > level THEN 0 ELSE nums[i]]

(* _generate_number_string without the filter: zeros are rendered too *)
generate_number_string_all(nums, level) ==
    LET kept == SubSeq(nums, 1, level)
    IN  join(DOT, [i \in 1..Len(kept) |-> str(kept[i])])

(* _generate_number_string with the filter num > 1 *)
generate_number_string_gt1(nums, level) ==
    LET kept == SelectSeq(SubSeq(nums, 1, level), LAMBDA num : num > 1)
    IN  join(DOT, [i \in 1..Len(kept) |-> str(kept[i])])

(* _generate_number_string over current_numbers[:level-1] *)
generate_number_string_short(nums, level) ==
    LET kept == SelectSeq(SubSeq(nums, 1, level - 1), LAMBDA num : num > 0)
    IN  join(DOT, [i \in 1..Len(kept) |-> str(kept[i])])

(* _generate_number_string:
   '.'.join(str(num) for num in current_numbers[:level] if num > 0) *)
generate_number_string(nums, level) ==
    LET kept == SelectSeq(SubSeq(nums, 1, level), LAMBDA num : num > 0)
    IN  join(DOT, [i \in 1..Len(kept) |-> str(kept[i])])

(* _reset_figure_numbers_if_needed *)
reset_figure_numbers_if_needed(st, level) ==
    IF level = 1
    THEN [st EXCEPT !.figure_count = 0, !.table_count = 0]
    ELSE st

(* _assign_chapter_number: the new state and the heading's number *)
assign_chapter_number(st, heading) ==
    LET level == heading.level
        nums  == reset_deeper_levels(
                     increment_level(
                         adjust_number_list(st.current_numbers, level), level),
                     level)
    IN  [state  |-> [st EXCEPT !.current_numbers = nums],
         number |-> generate_number_string(nums, level)]

(* one iteration of process_headings without the is_excluded test *)
process_heading_no_skip(st, heading) ==
    LET r == assign_chapter_number(st, heading)
    IN  [state   |-> reset_figure_numbers_if_needed(r.state, heading.level),
         heading |-> [heading EXCEPT !.number = r.number]]

(* one iteration of process_headings with the number list adjusted before
   the is_excluded test *)
process_heading_adjust_first(st, heading) ==
    IF heading.is_excluded
    THEN [state   |-> [st EXCEPT !.current_numbers =
                          adjust_number_list(@, heading.level)],
          heading |-> heading]
    ELSE LET r == assign_chapter_number(st, heading)
         IN  [state   |-> reset_figure_numbers_if_needed(r.state, heading.level),
              heading |-> [heading EXCEPT !.number = r.number]]

(* one iteration of process_headings that writes "0" into the number of an
   excluded heading *)
process_heading_number_excluded(st, heading) ==
    IF heading.is_excluded
    THEN [state |-> st, heading |-> [heading EXCEPT !.number = <<"0">>]]
    ELSE LET r == assign_chapter_number(st, heading)
         IN  [state   |-> reset_figure_numbers_if_needed(r.state, heading.level),
              heading |-> [heading EXCEPT !.number = r.number]]

(* one iteration of the loop of process_headings *)
process_heading(st, heading) ==
    IF heading.is_excluded
    THEN [state |-> st, heading |-> heading]
    ELSE LET r == assign_chapter_number(st, heading)
         IN  [state   |-> reset_figure_numbers_if_needed(r.state, heading.level),
              heading |-> [heading EXCEPT !.number = r.number]]

(* process_headings over a whole list: the final state and the headings *)
RECURSIVE process_headings(_, _)
process_headings(st, hs) ==
    IF Len(hs) = 0 THEN [state |-> st, headings |-> <<>>]
    ELSE LET r    == process_heading(st, Head(hs))
             rest == process_headings(r.state, Tail(hs))
         IN  [state |-> rest.state, headings |-> <<r.heading>> \o rest.headings]

----------------------------------------------------------------------------
(* FigureProcessor.assign_numbers *)

(* a scan that runs on to len(headings) once the next heading is reached *)
advance_heading_index_to_end(idx, hs, line) ==
    IF idx < Len(hs) - 1 /\ hs[idx + 2].line_number <= line
    THEN Len(hs)
    ELSE idx

(* the while loop that advances current_heading_index (0-based) *)
RECURSIVE advance_heading_index(_, _, _)
advance_heading_index(idx, hs, line) ==
    IF idx < Len(hs) - 1 /\ hs[idx + 2].line_number <= line
    THEN advance_heading_index(idx + 1, hs, line)
    ELSE idx

(* current_chapter without the fallback: headings[...].number alone *)
current_chapter_no_default(idx, hs) ==
    IF idx < Len(hs) THEN hs[idx + 1].number ELSE <<"1">>

(* current_chapter: headings[current_heading_index].number or "1" *)
current_chapter(idx, hs) ==
    IF idx < Len(hs)
    THEN (IF hs[idx + 1].number # <<>> THEN hs[idx + 1].number ELSE <<"1">>)
    ELSE <<"1">>

(* one iteration of the loop of assign_numbers with a single counter for
   figures and tables: a table counts on figure_count too *)
assign_number_shared(st, idx, hs, figure) ==
    LET idx2    == advance_heading_index(idx, hs, figure.line_number)
        chapter == current_chapter(idx2, hs)
        st2     == IF figure.type \in {"figure", "table"}
                   THEN [st EXCEPT !.figure_count = @ + 1]
                   ELSE st
        num     == IF figure.type \in {"figure", "table"} THEN st2.figure_count
                   ELSE figure.figure_number
    IN  [state  |-> st2,
         index  |-> idx2,
         figure |-> [figure EXCEPT !.figure_number = num,
                                   !.chapter_number = chapter]]

(* one iteration of the loop of assign_numbers that numbers from the counter
   and never stores the incremented counter *)
assign_number_not_stored(st, idx, hs, figure) ==
    LET idx2    == advance_heading_index(idx, hs, figure.line_number)
        chapter == current_chapter(idx2, hs)
        num     == IF figure.type = "figure" THEN st.figure_count + 1
                   ELSE IF figure.type = "table" THEN st.table_count + 1
                   ELSE figure.figure_number
    IN  [state  |-> st,
         index  |-> idx2,
         figure |-> [figure EXCEPT !.figure_number = num,
                                   !.chapter_number = chapter]]

(* one iteration of the loop of assign_numbers *)
assign_number(st, idx, hs, figure) ==
    LET idx2    == advance_heading_index(idx, hs, figure.line_number)
        chapter == current_chapter(idx2, hs)
        st2     == IF figure.type = "figure"
                   THEN [st EXCEPT !.figure_count = @ + 1]
                   ELSE IF figure.type = "table"
                   THEN [st EXCEPT !.table_count = @ + 1]
                   ELSE st
        num     == IF figure.type = "figure" THEN st2.figure_count
                   ELSE IF figure.type = "table" THEN st2.table_count
                   ELSE figure.figure_number
    IN  [state  |-> st2,
         index  |-> idx2,
         figure |-> [figure EXCEPT !.figure_number = num,
                                   !.chapter_number = chapter]]

(* assign_numbers over a whole list, from current_heading_index idx: the
   final state and the figures *)
RECURSIVE assign_numbers_from(_, _, _, _)
assign_numbers_from(st, idx, hs, figs) ==
    IF Len(figs) = 0 THEN [state |-> st, figures |-> <<>>]
    ELSE LET r    == assign_number(st, idx, hs, Head(figs))
             rest == assign_numbers_from(r.state, r.index, hs, Tail(figs))
         IN  [state |-> rest.state, figures |-> <<r.figure>> \o rest.figures]

(* assign_numbers(figures, headings, state): current_heading_index = 0 *)
assign_numbers(st, hs, figs) == assign_numbers_from(st, 0, hs, figs)

----------------------------------------------------------------------------
(* markchap.py: NumberingManager.process_headings and the figure loop of
   MarkchapCore.process_file, statement by statement *)

(* the body of the for loop of process_headings that leaves figure_count
   and table_count alone at a level-1 heading *)
markchap_process_heading_no_reset(st, heading) ==
    IF heading.is_excluded
    THEN [state |-> st, heading |-> heading]
    ELSE LET level    == heading.level
             nums     == st.current_numbers
             adjusted == IF Len(nums) < level
                         THEN nums \o [i \in 1..(level - Len(nums)) |-> 0]
                         ELSE IF Len(nums) > level
                         THEN SubSeq(nums, 1, level)
                         ELSE nums
             counted  == [adjusted EXCEPT ![level] = @ + 1]
             cleared  == [i \in 1..Len(counted) |->
                             IF i >= level + 1 THEN 0 ELSE counted[i]]
             parts    == SelectSeq(SubSeq(cleared, 1, level),
                                   LAMBDA num : num > 0)
             number   == join(DOT, [i \in 1..Len(parts) |-> str(parts[i])])
         IN  [state   |-> [st EXCEPT !.current_numbers = cleared],
              heading |-> [heading EXCEPT !.number = number]]

(* the body of the for loop of process_headings *)
markchap_process_heading(st, heading) ==
    IF heading.is_excluded
    THEN [state |-> st, heading |-> heading]
    ELSE LET level    == heading.level
             nums     == st.current_numbers
             adjusted == IF Len(nums) < level
                         THEN nums \o [i \in 1..(level - Len(nums)) |-> 0]
                         ELSE IF Len(nums) > level
                         THEN SubSeq(nums, 1, level)
                         ELSE nums
             counted  == [adjusted EXCEPT ![level] = @ + 1]
             cleared  == [i \in 1..Len(counted) |->
                             IF i >= level + 1 THEN 0 ELSE counted[i]]
             parts    == SelectSeq(SubSeq(cleared, 1, level),
                                   LAMBDA num : num > 0)
             number   == join(DOT, [i \in 1..Len(parts) |-> str(parts[i])])
             st2      == [st EXCEPT !.current_numbers = cleared]
         IN  [state   |-> IF level = 1
                          THEN [st2 EXCEPT !.figure_count = 0,
                                           !.table_count = 0]
                          ELSE st2,
              heading |-> [heading EXCEPT !.number = number]]

RECURSIVE markchap_process_headings(_, _)
markchap_process_headings(st, hs) ==
    IF Len(hs) = 0 THEN [state |-> st, headings |-> <<>>]
    ELSE LET r    == markchap_process_heading(st, Head(hs))
             rest == markchap_process_headings(r.state, Tail(hs))
         IN  [state |-> rest.state, headings |-> <<r.heading>> \o rest.headings]

(* the while loop of process_file: current_heading_index after it *)
RECURSIVE markchap_scan(_, _, _)
markchap_scan(idx, hs, line) ==
    IF idx < Len(hs) - 1 /\ hs[idx + 2].line_number <= line
    THEN markchap_scan(idx + 1, hs, line)
    ELSE idx

(* the body of the for loop over figures in process_file *)
markchap_number_figure(st, idx, hs, figure) ==
    LET idx2    == markchap_scan(idx, hs, figure.line_number)
        chapter == IF idx2 < Len(hs)
                   THEN (IF hs[idx2 + 1].number # <<>>
                         THEN hs[idx2 + 1].number ELSE <<"1">>)
                   ELSE <<"1">>
        counted == IF figure.type = "figure"
                   THEN [state  |-> [st EXCEPT !.figure_count = @ + 1],
                         number |-> st.figure_count + 1]
                   ELSE IF figure.type = "table"
                   THEN [state  |-> [st EXCEPT !.table_count = @ + 1],
                         number |-> st.table_count + 1]
                   ELSE [state |-> st, number |-> figure.figure_number]
    IN  [state  |-> counted.state,
         index  |-> idx2,
         figure |-> [figure EXCEPT !.figure_number = counted.number,
                                   !.chapter_number = chapter]]

RECURSIVE markchap_number_figures_from(_, _, _, _)
markchap_number_figures_from(st, idx, hs, figs) ==
    IF Len(figs) = 0 THEN [state |-> st, figures |-> <<>>]
    ELSE LET r    == markchap_number_figure(st, idx, hs, Head(figs))
             rest == markchap_number_figures_from(r.state, r.index, hs,
                                                  Tail(figs))
         IN  [state |-> rest.state, figures |-> <<r.figure>> \o rest.figures]

(* the figure loop of process_file: current_heading_index = 0 *)
markchap_number_figures(st, hs, figs) ==
    markchap_number_figures_from(st, 0, hs, figs)

----------------------------------------------------------------------------
(* Inputs: what parse_file hands to process_file.  The n-th heading of a
   file stands on line 2n; a figure stands on an odd line, and the figures
   come in document order. *)

HeadingInputs == [level : Levels, is_excluded : BOOLEAN]

heading_line(n) == 2 * n

FigureLines == {2 * g + 1 : g \in 0..Len(headings)}

last_figure_line == IF Len(figures) = 0 THEN 0
                    ELSE figures[Len(figures)].line_number

----------------------------------------------------------------------------
(* MarkchapCore *)

(* no client call yet *)
NoCall == [op |-> "", level |-> 0, type |-> "", raised |-> ""]

(* nothing parsed, nothing walked, nothing called *)
InitRest ==
    /\ last_call = NoCall
    /\ document = <<>>
    /\ tokens = <<>>
    /\ excluded_headings = <<>>
    /\ walk = <<>>
    /\ md_files = <<>>
    /\ calls = <<>>
    /\ success_count = 0
    /\ error_count = 0

(* MarkchapCore.__init__: one NumberingManager for the whole run *)
Init ==
    /\ module = "markchap_refactored"
    /\ InitRest
    /\ pc = "idle"
    /\ files_done = 0
    /\ headings = <<>>
    /\ figures = <<>>
    /\ state = NumberState(<<>>, 0, 0)
    /\ current_heading_index = 0

(* process_directory hands the next file to process_file; parse_file *)
ParseFile(nfiles) ==
    /\ pc = "idle"
    /\ files_done < nfiles
    /\ pc' = "headings"
    /\ headings' = <<>>
    /\ figures' = <<>>
    /\ current_heading_index' = 0
    /\ UNCHANGED <<files_done, state>>
    /\ UNCHANGED <<module, last_call, tokenVars, dirVars>>

(* process_headings: the iteration for the next heading of the list *)
ProcessHeading(h, maxlen) ==
    /\ pc = "headings"
    /\ Len(headings) < maxlen
    /\ LET r == process_heading(
                    state,
                    Heading(h.level, heading_line(Len(headings) + 1),
                            h.is_excluded))
       IN  /\ headings' = Append(headings, r.heading)
           /\ state' = r.state
    /\ UNCHANGED <<pc, files_done, figures, current_heading_index>>
    /\ UNCHANGED <<module, last_call, tokenVars, dirVars>>

(* process_headings returns; assign_numbers starts: current_heading_index = 0 *)
BeginFigures ==
    /\ pc = "headings"
    /\ pc' = "figures"
    /\ current_heading_index' = 0
    /\ UNCHANGED <<files_done, headings, figures, state>>
    /\ UNCHANGED <<module, last_call, tokenVars, dirVars>>

(* assign_numbers: the iteration for the next figure of a list that a
   caller may hand over in any order *)
AssignListedFigure(type, line, maxlen) ==
    /\ pc = "figures"
    /\ Len(figures) < maxlen
    /\ LET r == assign_number(state, current_heading_index, headings,
                              Figure(type, line))
       IN  /\ figures' = Append(figures, r.figure)
           /\ state' = r.state
           /\ current_heading_index' = r.index
    /\ UNCHANGED <<pc, files_done, headings>>
    /\ UNCHANGED <<module, last_call, tokenVars, dirVars>>

(* assign_numbers: the iteration for the next figure of the list that
   parse_file returned, which is in document order *)
AssignOrderedFigure(type, line, maxlen) ==
    /\ line >= last_figure_line
    /\ AssignListedFigure(type, line, maxlen)

AssignFigure(type, line) == AssignOrderedFigure(type, line, MaxFigures)

(* process_file returns to the loop of process_directory; its locals
   (headings, figures, current_heading_index) are gone, the state stays *)
FinishFile ==
    /\ pc = "figures"
    /\ pc' = "idle"
    /\ files_done' = files_done + 1
    /\ headings' = <<>>
    /\ figures' = <<>>
    /\ current_heading_index' = 0
    /\ UNCHANGED state
    /\ UNCHANGED <<module, last_call, tokenVars, dirVars>>

(* process_directory over MaxFiles files with one MarkchapCore *)
Next ==
    \/ ParseFile(MaxFiles)
    \/ \E h \in HeadingInputs : ProcessHeading(h, MaxHeadings)
    \/ BeginFigures
    \/ \E t \in FigureTypes : \E l \in FigureLines : AssignFigure(t, l)
    \/ FinishFile

Spec == Init /\ [][Next]_vars

(* process_file on one file with a fresh MarkchapCore *)
NextFile ==
    \/ ParseFile(1)
    \/ \E h \in HeadingInputs : ProcessHeading(h, MaxHeadings)
    \/ BeginFigures
    \/ \E t \in FigureTypes : \E l \in FigureLines : AssignFigure(t, l)
    \/ FinishFile

SpecFile == Init /\ [][NextFile]_vars

(* process_file on the headings that number differently: every level, and
   one excluded heading, which process_headings skips before it reads the
   level *)
VersionInputs ==
    [level : Levels, is_excluded : {FALSE}]
        \cup {[level |-> 1, is_excluded |-> TRUE]}

NextVersions ==
    \/ ParseFile(1)
    \/ \E h \in VersionInputs : ProcessHeading(h, MaxHeadings)
    \/ BeginFigures
    \/ \E t \in FigureTypes : \E l \in FigureLines : AssignFigure(t, l)
    \/ FinishFile

SpecVersions == Init /\ [][NextVersions]_vars

(* process_file on a file of chapters and sections: headings of level 1
   and 2 only, none excluded, up to twice MaxHeadings of them *)
ChapterInputs == [level : {1, 2}, is_excluded : {FALSE}]

NextChapters ==
    \/ ParseFile(1)
    \/ \E h \in ChapterInputs : ProcessHeading(h, 2 * MaxHeadings)
    \/ BeginFigures
    \/ \E t \in FigureTypes : \E l \in FigureLines : AssignFigure(t, l)
    \/ FinishFile

SpecChapters == Init /\ [][NextChapters]_vars

(* process_headings and assign_numbers on the lists of a caller: the
   figures in any order *)
NextAnyOrder ==
    \/ ParseFile(1)
    \/ \E h \in HeadingInputs : ProcessHeading(h, MaxHeadings)
    \/ BeginFigures
    \/ \E t \in FigureTypes : \E l \in FigureLines : AssignListedFigure(t, l, MaxFigures)
    \/ FinishFile

SpecAnyOrder == Init /\ [][NextAnyOrder]_vars

(* process_file on a file of chapters and sections with one figure more
   than MaxFigures *)
NextFigures ==
    \/ ParseFile(1)
    \/ \E h \in ChapterInputs : ProcessHeading(h, MaxHeadings)
    \/ BeginFigures
    \/ \E t \in FigureTypes : \E l \in FigureLines :
           AssignOrderedFigure(t, l, MaxFigures + 1)
    \/ FinishFile

SpecFigures == Init /\ [][NextFigures]_vars

(* markchap.py: Figure has no __post_init__, so a caller can hand the figure
   loop of process_file a record of any type *)
FigureKinds == FigureTypes \cup {"chart"}

InitMarkchap ==
    /\ pc = "idle"
    /\ files_done = 0
    /\ headings = <<>>
    /\ figures = <<>>
    /\ state = NumberState(<<>>, 0, 0)
    /\ current_heading_index = 0
    /\ module = "markchap"
    /\ InitRest

NextAnyKind ==
    \/ ParseFile(1)
    \/ \E h \in HeadingInputs : ProcessHeading(h, MaxHeadings)
    \/ BeginFigures
    \/ \E t \in FigureKinds : \E l \in FigureLines : AssignFigure(t, l)
    \/ FinishFile

SpecAnyKind == InitMarkchap /\ [][NextAnyKind]_vars

----------------------------------------------------------------------------
(* MarkdownParser and FigureProcessor on the token list *)

SPACE == " "

(* the labels of the rewritten captions, one character each *)
FIGURE_LABEL == "U+56F3"
TABLE_LABEL == "U+8868"

(* a token of markdown-it: type, tag, content, the alt attribute and map[0] *)
Token(type, tag, content, alt, line) ==
    [type |-> type, tag |-> tag, content |-> content, alt |-> alt,
     line |-> line]

(* int(token.tag[1]): h1 -> 1, h2 -> 2 *)
int(c) == CHOOSE n \in 0..9 : Digits[n + 1] = c

RECURSIVE lstrip(_)
lstrip(s) == IF Len(s) > 0 /\ s[1] = SPACE THEN lstrip(Tail(s)) ELSE s

RECURSIVE rstrip(_)
rstrip(s) == IF Len(s) > 0 /\ s[Len(s)] = SPACE
             THEN rstrip(SubSeq(s, 1, Len(s) - 1))
             ELSE s

(* str.strip() *)
strip(s) == rstrip(lstrip(s))

startswith(s, prefix) ==
    /\ Len(s) >= Len(prefix)
    /\ SubSeq(s, 1, Len(prefix)) = prefix

(* sub in s *)
RECURSIVE contains(_, _)
contains(s, sub) ==
    IF startswith(s, sub) THEN TRUE
    ELSE IF Len(s) = 0 THEN FALSE
    ELSE contains(Tail(s), sub)

(* the exclusion test with equality in the place of containment *)
is_excluded_text_equal(text, excluded) ==
    \E k \in 1..Len(excluded) : excluded[k] = text

(* any(excluded in text for excluded in excluded_headings) *)
is_excluded_text(text, excluded) ==
    \E k \in 1..Len(excluded) : contains(text, excluded[k])

(* Heading(level, text, raw_text, token_index, line_number, is_excluded) *)
ParsedHeading(level, text, token_index, line_number, is_excluded) ==
    [level |-> level, text |-> text, raw_text |-> text,
     token_index |-> token_index, line_number |-> line_number,
     is_excluded |-> is_excluded, number |-> <<>>]

(* _create_heading_from_token for the heading_open token at index (0-based):
   a list with the Heading, or the empty list for None *)
create_heading_from_token(toks, index, excluded) ==
    IF index + 1 < Len(toks) /\ toks[index + 2].type = "inline"
    THEN LET text == strip(toks[index + 2].content)
         IN  <<ParsedHeading(int(toks[index + 1].tag[2]), text, index,
                             toks[index + 1].line,
                             is_excluded_text(text, excluded))>>
    ELSE <<>>

(* _extract_headings over the tokens from index on *)
RECURSIVE extract_headings_from(_, _, _)
extract_headings_from(toks, index, excluded) ==
    IF index >= Len(toks) THEN <<>>
    ELSE (IF toks[index + 1].type = "heading_open"
          THEN create_heading_from_token(toks, index, excluded)
          ELSE <<>>)
         \o extract_headings_from(toks, index + 1, excluded)

extract_headings(toks, excluded) == extract_headings_from(toks, 0, excluded)

(* Figure(type, original_text, caption, token_index, line_number) *)
ParsedFigure(type, original_text, caption, token_index, line_number) ==
    [type |-> type, original_text |-> original_text, caption |-> caption,
     token_index |-> token_index, line_number |-> line_number,
     chapter_number |-> <<>>, figure_number |-> 0]

(* one literal of the pattern after optional white space: what is left of
   the text behind it *)
expect(r, c) ==
    LET t == lstrip(r.rest)
    IN  IF r.ok /\ Len(t) > 0 /\ t[1] = c
        THEN [ok |-> TRUE, rest |-> Tail(t)]
        ELSE [ok |-> FALSE, rest |-> <<>>]

(* re.search(r'<!--\s*TABLE_LABEL\s*:\s*([^>]+)\s*-->', content): whether it matches
   and group(1).strip() *)
table_match(content) ==
    LET r    == expect(expect(expect([ok |-> TRUE, rest |-> content],
                                     "<!--"), TABLE_LABEL), ":")
        body == SubSeq(r.rest, 1, Len(r.rest) - 1)
    IN  IF /\ r.ok
           /\ Len(r.rest) >= 2
           /\ r.rest[Len(r.rest)] = "-->"
           /\ \A k \in 1..Len(body) : body[k] # "-->"
        THEN [ok |-> TRUE, caption |-> strip(body)]
        ELSE [ok |-> FALSE, caption |-> <<>>]

(* _extract_image_figure *)
extract_image_figure(token, index) ==
    ParsedFigure("figure", token.content, token.alt, index, token.line)

(* _extract_table_figure: a list with the Figure, or the empty list *)
extract_table_figure(token, index) ==
    LET m == table_match(token.content)
    IN  IF m.ok
        THEN <<ParsedFigure("table", token.content, m.caption, index,
                            token.line)>>
        ELSE <<>>

(* extract_figures over the tokens from index on *)
RECURSIVE extract_figures_from(_, _)
extract_figures_from(toks, index) ==
    IF index >= Len(toks) THEN <<>>
    ELSE LET token == toks[index + 1]
         IN  (IF token.type = "image"
              THEN <<extract_image_figure(token, index)>>
              ELSE IF /\ token.type = "html_inline"
                      /\ contains(token.content, <<"<!--", SPACE, TABLE_LABEL>>)
              THEN extract_table_figure(token, index)
              ELSE <<>>)
             \o extract_figures_from(toks, index + 1)

extract_figures(toks) == extract_figures_from(toks, 0)

(* the heading update by text: every inline token that holds the heading's
   text gets the prefix *)
update_heading_token_by_text(toks, heading) ==
    IF ~heading.is_excluded /\ heading.number # <<>>
    THEN [i \in 1..Len(toks) |->
            IF toks[i].type = "inline" /\ toks[i].content = heading.text
            THEN [toks[i] EXCEPT
                     !.content = heading.number \o <<".", SPACE>>
                                     \o heading.text]
            ELSE toks[i]]
    ELSE toks

(* one iteration of _update_heading_tokens *)
update_heading_token(toks, heading) ==
    LET text_token_index == heading.token_index + 1
    IN  IF /\ ~heading.is_excluded /\ heading.number # <<>>
           /\ text_token_index < Len(toks)
           /\ toks[text_token_index + 1].type = "inline"
        THEN [toks EXCEPT
                 ![text_token_index + 1].content =
                     heading.number \o <<".", SPACE>> \o heading.text]
        ELSE toks

RECURSIVE update_heading_tokens(_, _)
update_heading_tokens(toks, hs) ==
    IF Len(hs) = 0 THEN toks
    ELSE update_heading_tokens(update_heading_token(toks, Head(hs)), Tail(hs))

(* _update_image_token: new_alt *)
new_alt(figure) ==
    <<FIGURE_LABEL>> \o figure.chapter_number \o DOT \o str(figure.figure_number)
        \o <<":", SPACE>> \o figure.caption

(* _update_table_token: the new content *)
new_comment(figure) ==
    <<"<!--", SPACE, TABLE_LABEL>> \o figure.chapter_number \o DOT
        \o str(figure.figure_number) \o <<":", SPACE>> \o figure.caption
        \o <<SPACE, "-->">>

(* the rewrite of one figure (a top-level token has no children) *)
rewrite_figure_token(toks, figure) ==
    LET i == figure.token_index + 1
    IN  IF figure.type = "figure"
        THEN (IF toks[i].type = "image"
              THEN [toks EXCEPT ![i].alt = new_alt(figure)]
              ELSE toks)
        ELSE IF figure.type = "table"
        THEN [toks EXCEPT ![i].content = new_comment(figure)]
        ELSE toks

(* one iteration of update_tokens without the test figure_number > 0 *)
update_figure_token_unguarded(toks, figure) ==
    IF figure.token_index < Len(toks)
    THEN rewrite_figure_token(toks, figure)
    ELSE toks

(* one iteration of FigureProcessor.update_tokens *)
update_figure_token(toks, figure) ==
    IF figure.figure_number > 0 /\ figure.token_index < Len(toks)
    THEN rewrite_figure_token(toks, figure)
    ELSE toks

RECURSIVE update_tokens(_, _)
update_tokens(toks, figs) ==
    IF Len(figs) = 0 THEN toks
    ELSE update_tokens(update_figure_token(toks, Head(figs)), Tail(figs))

----------------------------------------------------------------------------
(* FileProcessor.get_markdown_files *)

(* the characters of the file names, in code-point order *)
Alphabet == <<".", "/", "B", "D", "M", "a", "b", "c", "d", "m", "n", "t", "x">>

ord(c) == CHOOSE i \in 1..Len(Alphabet) : Alphabet[i] = c

(* str < str: the first differing character decides, a proper prefix is
   smaller *)
RECURSIVE str_less(_, _)
str_less(a, b) ==
    IF Len(a) = 0 THEN Len(b) > 0
    ELSE IF Len(b) = 0 THEN FALSE
    ELSE IF a[1] = b[1] THEN str_less(Tail(a), Tail(b))
    ELSE ord(a[1]) < ord(b[1])

RECURSIVE insert_sorted(_, _)
insert_sorted(x, s) ==
    IF Len(s) = 0 THEN <<x>>
    ELSE IF str_less(x, s[1]) THEN <<x>> \o s
    ELSE <<s[1]>> \o insert_sorted(x, Tail(s))

(* sorted(list of str) *)
RECURSIVE sorted(_)
sorted(s) == IF Len(s) = 0 THEN <<>>
             ELSE insert_sorted(Head(s), sorted(Tail(s)))

(* str.lower() *)
lower(s) ==
    [i \in 1..Len(s) |->
        CASE s[i] = "B" -> "b" [] s[i] = "D" -> "d" [] s[i] = "M" -> "m"
          [] OTHER -> s[i]]

(* str.endswith(suffix) *)
endswith(s, suffix) ==
    /\ Len(s) >= Len(suffix)
    /\ SubSeq(s, Len(s) - Len(suffix) + 1, Len(s)) = suffix

(* _is_markdown_file; markchap.py tests file.endswith('.md') alone *)
is_markdown_file(mod, name) ==
    IF mod = "markchap_refactored"
    THEN \/ endswith(lower(name), <<".", "m", "d">>)
         \/ endswith(lower(name),
                     <<".", "m", "a", "r", "k", "d", "o", "w", "n">>)
    ELSE endswith(name, <<".", "m", "d">>)

(* the Markdown files in the order os.walk yields them *)
RECURSIVE walked_markdown_files(_, _)
walked_markdown_files(mod, w) ==
    IF Len(w) = 0 THEN <<>>
    ELSE (IF is_markdown_file(mod, Head(w)) THEN <<Head(w)>> ELSE <<>>)
         \o walked_markdown_files(mod, Tail(w))

(* get_markdown_files without the final sorted(md_files) *)
get_markdown_files_unsorted(mod, w) == walked_markdown_files(mod, w)

(* get_markdown_files: the Markdown files of the walk, sorted *)
get_markdown_files(mod, w) == sorted(walked_markdown_files(mod, w))

----------------------------------------------------------------------------
(* MarkchapCore.process_directory *)

(* the paths below input_dir *)
FileNames == { <<"a", ".", "m", "d">>, <<"B", ".", "M", "D">>,
               <<"a", "/", "c", ".", "m", "d">>, <<"n", ".", "t", "x", "t">> }

(* what os.walk can yield: up to MaxFiles paths, none twice, in any order *)
Walks ==
    {w \in UNION {[1..n -> FileNames] : n \in 0..MaxFiles} :
        \A i, j \in 1..Len(w) : i # j => w[i] # w[j]}

(* what parse_file can return for a file: its headings and its figures *)
FileDocs ==
    [headings : {<<>>, <<Heading(1, heading_line(1), FALSE)>>},
     figures  : {<<>>, <<Figure("figure", heading_line(1) + 1)>>}]

(* how a process_file call goes: to the end, or parse_file raises, or
   write_output_file raises *)
Outcomes == {"ok", "parse", "write"}

InitDirectory ==
    /\ pc = "start"
    /\ files_done = 0
    /\ headings = <<>>
    /\ figures = <<>>
    /\ state = NumberState(<<>>, 0, 0)
    /\ current_heading_index = 0
    /\ module \in Modules
    /\ last_call = NoCall
    /\ document = <<>>
    /\ tokens = <<>>
    /\ excluded_headings = <<>>
    /\ walk \in Walks
    /\ md_files = <<>>
    /\ calls = <<>>
    /\ success_count = 0
    /\ error_count = 0

(* process_directory up to the loop: get_markdown_files,
   prepare_output_directory (prepared: whether it returns), the counts *)
StartDirectory(prepared) ==
    /\ pc = "start"
    /\ LET files == get_markdown_files(module, walk)
       IN  /\ md_files' = files
           /\ pc' = IF Len(files) = 0
                    THEN (IF module = "markchap_refactored"
                          THEN "raised" ELSE "done")
                    ELSE IF prepared THEN "loop"
                    ELSE "raised"
    /\ UNCHANGED <<files_done, headings, figures, state,
                   current_heading_index, module, last_call, tokenVars,
                   walk, calls, success_count, error_count>>

(* one iteration of the loop: process_file(file_path, input_dir) on a file
   that holds doc.  The refactored process_file raises ParsingError and the
   loop counts; process_file of markchap.py catches and prints, itself. *)
ProcessFile(doc, outcome) ==
    /\ pc = "loop"
    /\ files_done < Len(md_files)
    /\ LET hs == process_headings(state, doc.headings)
           fs == assign_numbers(hs.state, hs.headings, doc.figures)
       IN  state' = IF outcome = "parse" THEN state ELSE fs.state
    /\ calls' = Append(calls, [path   |-> md_files[files_done + 1],
                               failed |-> outcome # "ok"])
    /\ files_done' = files_done + 1
    /\ success_count' =
           IF module = "markchap_refactored" /\ outcome = "ok"
           THEN success_count + 1 ELSE success_count
    /\ error_count' =
           IF module = "markchap_refactored" /\ outcome # "ok"
           THEN error_count + 1 ELSE error_count
    /\ UNCHANGED <<pc, headings, figures, current_heading_index, module,
                   last_call, tokenVars, walk, md_files>>

(* the loop is over: process_directory returns *)
FinishDirectory ==
    /\ pc = "loop"
    /\ files_done = Len(md_files)
    /\ pc' = "done"
    /\ UNCHANGED <<files_done, headings, figures, state,
                   current_heading_index, module, last_call, tokenVars,
                   dirVars>>

NextDirectory ==
    \/ \E prepared \in BOOLEAN : StartDirectory(prepared)
    \/ \E doc \in FileDocs : \E outcome \in Outcomes :
           ProcessFile(doc, outcome)
    \/ FinishDirectory

SpecDirectory == InitDirectory /\ [][NextDirectory]_vars

----------------------------------------------------------------------------
(* process_file on a token list *)

HeadingTexts == { <<"A">>, <<"A", "b">>, <<"c", "A", "b">> }

ImageAlts == { <<"p">>, <<>> }

(* a table comment, a comment with the label and no colon, another comment *)
Comments ==
    { <<"<!--", SPACE, TABLE_LABEL, ":", SPACE, "t", SPACE, "-->">>,
      <<"<!--", SPACE, TABLE_LABEL, SPACE, "t", SPACE, "-->">>,
      <<"<!--", SPACE, "x", SPACE, "-->">> }

Blocks ==
    [kind : {"heading"}, level : {1, 2}, text : HeadingTexts]
        \cup [kind : {"image"}, alt : ImageAlts]
        \cup [kind : {"comment"}, content : Comments]

(* the tokens of one block that starts on the line *)
block_tokens(b, line) ==
    IF b.kind = "heading"
    THEN <<Token("heading_open", <<"h">> \o str(b.level), <<>>, <<>>, line),
           Token("inline", <<>>, b.text, <<>>, line),
           Token("heading_close", <<"h">> \o str(b.level), <<>>, <<>>, line)>>
    ELSE IF b.kind = "image"
    THEN <<Token("image", <<"i", "m", "g">>, <<>>, b.alt, line)>>
    ELSE <<Token("html_inline", <<>>, b.content, <<>>, line)>>

(* the token list of a sequence of blocks, a blank line between two *)
RECURSIVE blocks_tokens(_, _)
blocks_tokens(bs, line) ==
    IF Len(bs) = 0 THEN <<>>
    ELSE block_tokens(Head(bs), line) \o blocks_tokens(Tail(bs), line + 2)

Documents ==
    {blocks_tokens(bs, 0) :
        bs \in UNION {[1..n -> Blocks] : n \in 0..MaxBlocks}}

(* values of the config key excluded_headings *)
ExcludedLists ==
    { <<>>, << <<"A", "b">> >>, << <<"x">>, <<"c">> >>, << <<>> >> }

Called(op) == [NoCall EXCEPT !.op = op]

InitTokens ==
    /\ pc = "start"
    /\ files_done = 0
    /\ headings = <<>>
    /\ figures = <<>>
    /\ state = NumberState(<<>>, 0, 0)
    /\ current_heading_index = 0
    /\ module = "markchap_refactored"
    /\ last_call = NoCall
    /\ document \in Documents
    /\ tokens = document
    /\ excluded_headings \in ExcludedLists
    /\ walk = <<>>
    /\ md_files = <<>>
    /\ calls = <<>>
    /\ success_count = 0
    /\ error_count = 0

(* parse_file: _extract_headings and extract_figures on the tokens *)
ParseTokens ==
    /\ pc = "start"
    /\ pc' = "parsed"
    /\ headings' = extract_headings(tokens, excluded_headings)
    /\ figures' = extract_figures(tokens)
    /\ last_call' = Called("parse_file")
    /\ UNCHANGED <<files_done, state, current_heading_index, module,
                   tokenVars, dirVars>>

(* self.numbering.process_headings(headings) *)
ProcessHeadings ==
    /\ pc = "parsed"
    /\ pc' = "numbered"
    /\ LET r == process_headings(state, headings)
       IN  /\ headings' = r.headings
           /\ state' = r.state
    /\ last_call' = Called("process_headings")
    /\ UNCHANGED <<files_done, figures, current_heading_index, module,
                   tokenVars, dirVars>>

(* self.figure_processor.assign_numbers(figures, headings, state) *)
AssignNumbers ==
    /\ pc = "numbered"
    /\ pc' = "assigned"
    /\ LET r == assign_numbers(state, headings, figures)
       IN  /\ figures' = r.figures
           /\ state' = r.state
    /\ last_call' = Called("assign_numbers")
    /\ UNCHANGED <<files_done, headings, current_heading_index, module,
                   tokenVars, dirVars>>

(* self._update_tokens(tokens, headings, figures) *)
UpdateTokens ==
    /\ pc = "assigned"
    /\ pc' = "updated"
    /\ tokens' = update_tokens(update_heading_tokens(tokens, headings),
                               figures)
    /\ last_call' = Called("_update_tokens")
    /\ UNCHANGED <<files_done, headings, figures, state,
                   current_heading_index, module, document,
                   excluded_headings, dirVars>>

(* a client calls FigureProcessor.update_tokens(tokens, figures) itself, on
   the figures as they are *)
UpdateFigureTokens ==
    /\ pc \in {"parsed", "numbered", "assigned"}
    /\ tokens' = update_tokens(tokens, figures)
    /\ last_call' = Called("update_tokens")
    /\ UNCHANGED <<pc, files_done, headings, figures, state,
                   current_heading_index, module, document,
                   excluded_headings, dirVars>>

NextTokens ==
    \/ ParseTokens
    \/ ProcessHeadings
    \/ AssignNumbers
    \/ UpdateTokens
    \/ UpdateFigureTokens

SpecTokens == InitTokens /\ [][NextTokens]_vars

----------------------------------------------------------------------------
(* A client that builds Heading and Figure records one by one, as the unit
   tests do, and keeps the ones it got *)

LevelArgs == (-1)..(MaxHeadingLevel + 1)

InitRecords ==
    /\ pc = "client"
    /\ files_done = 0
    /\ headings = <<>>
    /\ figures = <<>>
    /\ state = NumberState(<<>>, 0, 0)
    /\ current_heading_index = 0
    /\ module \in Modules
    /\ InitRest

(* Heading(level=level, ..., line_number=...) with the defaults *)
NewHeading(level) ==
    /\ pc = "client"
    /\ Len(headings) < MaxHeadings
    /\ LET e == Heading_post_init(module, level)
       IN  /\ last_call' = [op |-> "Heading", level |-> level, type |-> "",
                            raised |-> e]
           /\ headings' =
                  IF e = ""
                  THEN Append(headings,
                              Heading(level, heading_line(Len(headings) + 1),
                                      FALSE))
                  ELSE headings
    /\ UNCHANGED <<pc, files_done, figures, state, current_heading_index,
                   module, tokenVars, dirVars>>

(* Figure(type=type, ..., line_number=...) with the defaults *)
NewFigure(type) ==
    /\ pc = "client"
    /\ Len(figures) < MaxFigures
    /\ LET e == Figure_post_init(module, type)
       IN  /\ last_call' = [op |-> "Figure", level |-> 0, type |-> type,
                            raised |-> e]
           /\ figures' =
                  IF e = ""
                  THEN Append(figures, Figure(type, 2 * Len(figures) + 1))
                  ELSE figures
    /\ UNCHANGED <<pc, files_done, headings, state, current_heading_index,
                   module, tokenVars, dirVars>>

NextRecords ==
    \/ \E level \in LevelArgs : NewHeading(level)
    \/ \E type \in FigureKinds : NewFigure(type)

SpecRecords == InitRecords /\ [][NextRecords]_vars

(* process_headings(headings) called on a NumberingManager whose counters
   are empty: a fresh manager, as in the unit tests, or one that has only
   numbered figures so far (a file without numbered headings), which leaves
   figure_count and table_count behind *)
PriorCounts == {0, 1}

InitHeadings ==
    /\ module = "markchap_refactored"
    /\ InitRest
    /\ pc = "headings"
    /\ files_done = 0
    /\ headings = <<>>
    /\ figures = <<>>
    /\ \E fc \in PriorCounts : \E tc \in PriorCounts :
           state = NumberState(<<>>, fc, tc)
    /\ current_heading_index = 0

NextHeadings ==
    \E h \in HeadingInputs : ProcessHeading(h, MaxSeqLen)

SpecHeadings == InitHeadings /\ [][NextHeadings]_vars

----------------------------------------------------------------------------
(* Vocabulary of the properties *)

FreshState == NumberState(<<>>, 0, 0)

NoExclusions(hs) == \A i \in 1..Len(hs) : ~hs[i].is_excluded

LevelsOf(hs) == [i \in 1..Len(hs) |-> hs[i].level]

NumbersOf(hs) == [i \in 1..Len(hs) |-> hs[i].number]

(* the sequence starts at level 1 and never goes more than one level
   deeper than the previous heading *)
Nested(hs) ==
    \/ Len(hs) = 0
    \/ /\ hs[1].level = 1
       /\ \A i \in 2..Len(hs) : hs[i].level <= hs[i - 1].level + 1

MaxOf(S) == CHOOSE j \in S : \A k \in S : k <= j

(* the enclosing heading of heading i: the last earlier heading of a
   smaller level, 0 when there is none *)
Parent(hs, i) ==
    LET above == {j \in 1..(i - 1) : hs[j].level < hs[i].level}
    IN  IF above = {} THEN 0 ELSE MaxOf(above)

(* the 1-based ordinal of heading i among the headings of its level under
   the same parent *)
Ordinal(hs, i) ==
    Cardinality({k \in 1..i : /\ hs[k].level = hs[i].level
                              /\ Parent(hs, k) = Parent(hs, i)})

(* ancestors' ordinals, then the heading's own *)
RECURSIVE DottedNumber(_, _)
DottedNumber(hs, i) ==
    IF Parent(hs, i) = 0 THEN str(Ordinal(hs, i))
    ELSE DottedNumber(hs, Parent(hs, i)) \o DOT \o str(Ordinal(hs, i))

(* the headings as parse_file delivers them, before any numbering *)
Unnumbered(hs) ==
    [i \in 1..Len(hs) |->
        Heading(hs[i].level, hs[i].line_number, hs[i].is_excluded)]

NotExcluded(h) == ~h.is_excluded

(* the number of sep-separated components of a string: len(s.split(sep)) *)
RECURSIVE split_count(_, _)
split_count(s, sep) ==
    IF Len(s) = 0 THEN 1
    ELSE (IF Head(s) = sep THEN 1 ELSE 0) + split_count(Tail(s), sep)

----------------------------------------------------------------------------
(* C1: a heading sequence without exclusions that starts at level 1 and
   never goes more than one level deeper than the previous heading gets,
   from empty counters, for each heading the dotted number made of its
   ancestors' ordinals followed by its own ordinal among the headings of
   its level under the same parent; H1, H2, H2, H1 are numbered "1", "1.1",
   "1.2", "2". *)
C1_NestedNumbering ==
    /\ (NoExclusions(headings) /\ Nested(headings)) =>
           \A i \in 1..Len(headings) :
               headings[i].number = DottedNumber(headings, i)
    /\ (NoExclusions(headings) /\ LevelsOf(headings) = <<1, 2, 2, 1>>) =>
           NumbersOf(headings) =
               <<(<<"1">>), (<<"1", ".", "1">>), (<<"1", ".", "2">>), (<<"2">>)>>

C1_Witness ==
    /\ NoExclusions(headings)
    /\ LevelsOf(headings) = <<1, 2, 2, 1>>
    /\ headings[3].number = <<"1", ".", "2">>
    /\ state.current_numbers = <<2>>

(* C2 as stated: for every heading sequence with no exclusions (any levels
   in 1..6, in any order, from empty counters) the number of dot-separated
   components of a heading's number equals the heading's level. *)
C2_ComponentsEqualLevel ==
    NoExclusions(headings) =>
        \A i \in 1..Len(headings) :
            split_count(headings[i].number, ".") = headings[i].level

(* C2 amended: the number of dot-separated components equals the heading's
   level for every heading sequence with no exclusions that starts at level
   1 and never goes more than one level deeper than the previous heading. *)
C2_ComponentsEqualLevelNested ==
    (NoExclusions(headings) /\ Nested(headings)) =>
        \A i \in 1..Len(headings) :
            split_count(headings[i].number, ".") = headings[i].level

C2_Witness ==
    /\ NoExclusions(headings)
    /\ LevelsOf(headings) = <<1, 2, 3, 4>>
    /\ split_count(headings[4].number, ".") = 4

(* C3: in a process_directory run over several files the heading counters
   are empty at the start of each file's process_headings, and the numbers
   of a file's headings equal the numbers the file gets when it is
   processed alone. *)
C3_CountersEmptyPerFile ==
    /\ (pc = "headings" /\ Len(headings) = 0) => state.current_numbers = <<>>
    /\ pc \in {"headings", "figures"} =>
           NumbersOf(headings) =
               NumbersOf(process_headings(FreshState, Unnumbered(headings)).headings)

(* C4: at the start of the figure numbering of every file of a batch,
   figure_count and table_count are 0. *)
C4_FigureCountsZeroPerFile ==
    (pc = "figures" /\ Len(figures) = 0) =>
        (state.figure_count = 0 /\ state.table_count = 0)

(* C5: process_headings skips an excluded heading entirely: the step leaves
   the counters and the figure and table counts unchanged and the heading's
   number empty, and a sequence of excluded headings only leaves
   current_numbers empty. *)
C5_ExcludedHeadingSkipped ==
    /\ [][(/\ pc = "headings"
           /\ Len(headings') = Len(headings) + 1
           /\ headings'[Len(headings')].is_excluded)
          => (/\ state' = state
              /\ headings'[Len(headings')].number = <<>>
              /\ SubSeq(headings', 1, Len(headings)) = headings)]_vars
    /\ []((\A i \in 1..Len(headings) : headings[i].is_excluded)
          => state.current_numbers = <<>>)

C5_Witness ==
    /\ Len(headings) = 2
    /\ ~headings[1].is_excluded /\ headings[1].level = 2
    /\ headings[2].is_excluded /\ headings[2].level = 1
    /\ headings[2].number = <<>>
    /\ state.current_numbers = <<0, 1>>
    /\ state.figure_count = 1
    /\ state.table_count = 1

(* C6: excluded headings do not influence any other heading's number: the
   numbers of the non-excluded headings are those they get when all
   excluded headings are removed from the sequence, and the first
   non-excluded heading is numbered "1" whatever excluded headings precede
   it. *)
C6_ExcludedDoNotInfluence ==
    LET kept  == SelectSeq(headings, NotExcluded)
        alone == process_headings(FreshState, Unnumbered(kept)).headings
    IN  /\ NumbersOf(kept) = NumbersOf(alone)
        /\ \A i \in 1..Len(headings) :
               (/\ ~headings[i].is_excluded
                /\ \A j \in 1..(i - 1) : headings[j].is_excluded)
               => headings[i].number = <<"1">>

C6_Witness ==
    /\ Len(headings) = 4
    /\ ~headings[1].is_excluded /\ headings[1].level = 1
    /\ ~headings[2].is_excluded /\ headings[2].level = 2
    /\ headings[3].is_excluded /\ headings[3].level = 1
    /\ ~headings[4].is_excluded /\ headings[4].level = 2
    /\ headings[4].number = <<"1", ".", "2">>

(* C7: after process_headings, a heading's number is non-empty if and only
   if the heading is not excluded. *)
C7_NumberedIffNotExcluded ==
    \A i \in 1..Len(headings) :
        (headings[i].number # <<>>) <=> ~headings[i].is_excluded

C7_Witness ==
    /\ Len(headings) = 3
    /\ headings[1].is_excluded /\ headings[1].number = <<>>
    /\ ~headings[2].is_excluded /\ headings[2].level = 6
    /\ headings[2].number = <<"1">>
    /\ ~headings[3].is_excluded /\ headings[3].number # <<>>

----------------------------------------------------------------------------
(* Scopes of figures *)

(* the non-excluded headings of the anchor level, level 2 *)
Anchors(hs) ==
    {i \in 1..Len(hs) : hs[i].level = 2 /\ ~hs[i].is_excluded}

(* those standing at or before the line *)
AnchorsUpTo(hs, line) == {i \in Anchors(hs) : hs[i].line_number <= line}

MinOf(S) == CHOOSE j \in S : \A k \in S : j <= k

DefaultScope == <<"1">>

(* C8: within one document, the sequence numbers of the figures that share
   a scope (same chapter_number) form, for each kind separately, the run
   1, 2, ..., k in document order; the first figure and the first table of
   every scope are numbered 1. *)
C8_ContiguousPerScope ==
    \A i \in 1..Len(figures) :
        figures[i].figure_number =
            Cardinality({j \in 1..i :
                /\ figures[j].chapter_number = figures[i].chapter_number
                /\ figures[j].type = figures[i].type})

(* C9: the scope of a figure is the number of the last non-excluded level-2
   heading whose position is <= the figure's position, also when deeper or
   excluded headings lie in between; a figure after heading "1.1" with one
   earlier figure in scope "1.1" gets scope "1.1" and sequence 2. *)
C9_ScopeIsLastAnchor ==
    \A i \in 1..Len(figures) :
        LET before == AnchorsUpTo(headings, figures[i].line_number)
        IN  before # {} =>
                figures[i].chapter_number = headings[MaxOf(before)].number

(* C10: when no anchor-level heading lies at or before a figure, its scope
   is the number of the first non-excluded anchor-level heading of the
   document, and the fixed default value when the document has none. *)
C10_ScopeFallback ==
    pc = "figures" =>
        \A i \in 1..Len(figures) :
            AnchorsUpTo(headings, figures[i].line_number) = {} =>
                figures[i].chapter_number =
                    IF Anchors(headings) # {}
                    THEN headings[MinOf(Anchors(headings))].number
                    ELSE DefaultScope

----------------------------------------------------------------------------
(* the figure the last step of assign_numbers has numbered *)
LastFigure(figs) == figs[Len(figs)]

(* C11: figure and table counters are independent: numbering a figure
   leaves table_count unchanged and numbering a table leaves figure_count
   unchanged, so a figure and a table that follow the same heading
   (number "1") from a fresh state both get sequence number 1 and
   chapter_number "1", in either interleaving. *)
C11_CountersIndependent ==
    /\ [][(pc = "figures" /\ Len(figures') = Len(figures) + 1) =>
            LET f == LastFigure(figures')
            IN  /\ f.type = "figure" =>
                       /\ state'.table_count = state.table_count
                       /\ state'.figure_count = state.figure_count + 1
                       /\ f.figure_number = state'.figure_count
                /\ f.type = "table" =>
                       /\ state'.figure_count = state.figure_count
                       /\ state'.table_count = state.table_count + 1
                       /\ f.figure_number = state'.table_count]_vars
    /\ []((/\ files_done = 0
           /\ Len(headings) = 1
           /\ headings[1].number = <<"1">>
           /\ Len(figures) = 2
           /\ figures[1].type # figures[2].type)
          => \A i \in 1..2 : /\ figures[i].figure_number = 1
                             /\ figures[i].chapter_number = <<"1">>)

C11_Witness ==
    /\ files_done = 0
    /\ Len(headings) = 1
    /\ headings[1].level = 1
    /\ headings[1].number = <<"1">>
    /\ Len(figures) = 2
    /\ figures[1].type = "table" /\ figures[1].line_number = 3
    /\ figures[2].type = "figure" /\ figures[2].line_number = 3
    /\ figures[2].figure_number = 1
    /\ state.figure_count = 1 /\ state.table_count = 1

(* C13: after the figure numbering pass every figure has both
   chapter_number and figure_number set (chapter_number non-empty and
   figure_number >= 1) or both unset (chapter_number "" and figure_number
   0). *)
C13_BothSetOrBothUnset ==
    \A i \in 1..Len(figures) :
        \/ figures[i].chapter_number # <<>> /\ figures[i].figure_number >= 1
        \/ figures[i].chapter_number = <<>> /\ figures[i].figure_number = 0

C13_Witness ==
    /\ pc = "figures"
    /\ Len(headings) = 1
    /\ headings[1].is_excluded
    /\ Len(figures) = 2
    /\ figures[1].type = "figure" /\ figures[1].line_number = 3
    /\ figures[1].chapter_number = <<"1">> /\ figures[1].figure_number = 1
    /\ figures[2].type = "table"
    /\ figures[2].chapter_number = <<"1">> /\ figures[2].figure_number = 1

----------------------------------------------------------------------------
(* the headings standing at or before the line *)
HeadingsUpTo(hs, line) == {g \in 1..Len(hs) : hs[g].line_number <= line}

(* the number of level-1 headings among the first g headings *)
ChaptersUpTo(hs, g) == Cardinality({k \in 1..g : hs[k].level = 1})

(* figure i is the first of its kind under heading g *)
FirstOfKindUnder(hs, figs, i, g) ==
    \A j \in 1..(i - 1) :
        figs[j].type = figs[i].type =>
            figs[j].line_number < hs[g].line_number

(* C12: in a document with several level-1 chapters the figures of a later
   chapter are numbered from 1 within their own section: the first image
   and the first table under a section of chapter 2 (2.1, 2.2) are
   rewritten as <section>.1, although an image already appeared under an
   earlier section. *)
C12_LaterChapterStartsAtOne ==
    \A i \in 1..Len(figures) :
        LET before == HeadingsUpTo(headings, figures[i].line_number)
            g      == MaxOf(before)
        IN  (/\ before # {}
             /\ headings[g].level = 2
             /\ ChaptersUpTo(headings, g) >= 2
             /\ FirstOfKindUnder(headings, figures, i, g))
            => figures[i].chapter_number \o DOT \o str(figures[i].figure_number)
                   = headings[g].number \o DOT \o <<"1">>

----------------------------------------------------------------------------
(* C18: a figure record whose kind is neither figure nor table does not fail
   the document: it is assigned a default sequence number, and the remaining
   figures are still processed.  Here: once the figure loop has handled such
   a record, the record carries a sequence number (figure_number >= 1, what
   the token update takes for "numbered"). *)
C18_UnknownKindGetsSequenceNumber ==
    \A i \in 1..Len(figures) :
        figures[i].type \notin FigureTypes => figures[i].figure_number >= 1

----------------------------------------------------------------------------
(* C16: constructing a Heading whose level is outside 1..6 is rejected with
   ValidationError and yields no heading record; every level in 1..6 is
   accepted with is_excluded False and number "" by default. *)
C16_LevelOutsideRangeRejected ==
    /\ \A k \in 1..Len(headings) : headings[k].level \in 1..6
    /\ last_call.op = "Heading" =>
           IF last_call.level \in 1..6
           THEN /\ last_call.raised = ""
                /\ Len(headings) >= 1
                /\ headings[Len(headings)].level = last_call.level
                /\ headings[Len(headings)].is_excluded = FALSE
                /\ headings[Len(headings)].number = <<>>
           ELSE last_call.raised = "ValidationError"

(* C17: constructing a Figure (markchap_refactored) whose type is neither
   "figure" nor "table" raises ValidationError and adds no record; a Figure
   of type "figure" or "table" is accepted with figure_number 0 and
   chapter_number "". *)
C17_FigureTypeValidated ==
    module = "markchap_refactored" =>
        /\ \A k \in 1..Len(figures) : figures[k].type \in {"figure", "table"}
        /\ last_call.op = "Figure" =>
               IF last_call.type \in {"figure", "table"}
               THEN /\ last_call.raised = ""
                    /\ Len(figures) >= 1
                    /\ figures[Len(figures)].type = last_call.type
                    /\ figures[Len(figures)].figure_number = 0
                    /\ figures[Len(figures)].chapter_number = <<>>
               ELSE last_call.raised = "ValidationError"

(* a Figure was accepted, and then a Figure of another type was refused *)
C17_Witness ==
    /\ module = "markchap_refactored"
    /\ last_call.op = "Figure"
    /\ last_call.type \notin {"figure", "table"}
    /\ last_call.raised = "ValidationError"
    /\ Len(figures) >= 1
    /\ figures[Len(figures)].figure_number = 0

----------------------------------------------------------------------------
(* a comes before b in the order of sorted(): they agree up to a position
   where a has ended, or where a has the smaller character *)
PathBefore(a, b) ==
    \E k \in 1..Len(b) :
        /\ k <= Len(a) + 1
        /\ \A m \in 1..(k - 1) : a[m] = b[m]
        /\ (k = Len(a) + 1 \/ ord(a[k]) < ord(b[k]))

Discovered == {w \in FileNames :
                  /\ \E i \in 1..Len(walk) : walk[i] = w
                  /\ is_markdown_file(module, w)}

(* C19: process_directory calls process_file for every discovered Markdown
   file exactly once, in sorted path order; an exception raised while
   processing one file never prevents the processing of a later file, and in
   the refactored version success_count + error_count is the number of files
   at the end. *)
C19_EveryFileOnceInOrder ==
    /\ pc \in {"loop", "done"} =>
           /\ {md_files[i] : i \in 1..Len(md_files)} = Discovered
           /\ \A i, j \in 1..Len(md_files) :
                  i < j => PathBefore(md_files[i], md_files[j])
    /\ Len(calls) <= Len(md_files)
    /\ \A i \in 1..Len(calls) : calls[i].path = md_files[i]
    /\ module = "markchap_refactored" =>
           /\ success_count =
                  Cardinality({i \in 1..Len(calls) : ~calls[i].failed})
           /\ error_count =
                  Cardinality({i \in 1..Len(calls) : calls[i].failed})
    /\ pc = "done" =>
           /\ Len(calls) = Len(md_files)
           /\ module = "markchap_refactored" =>
                  success_count + error_count = Len(md_files)

(* os.walk yielded the files out of order, the first call failed and the
   second file was processed all the same *)
C19_Witness ==
    /\ pc = "done"
    /\ Len(md_files) >= 2
    /\ walk # md_files
    /\ calls[1].failed
    /\ ~calls[2].failed
    /\ module = "markchap_refactored"

----------------------------------------------------------------------------
(* sub stands in s at some offset *)
OccursIn(sub, s) ==
    \E o \in 0..(Len(s) - Len(sub)) : SubSeq(s, o + 1, o + Len(sub)) = sub

(* the text holds at least one entry of the excluded_headings list *)
ExcludedByConfig(text) ==
    \E k \in 1..Len(excluded_headings) : OccursIn(excluded_headings[k], text)

(* the positions of the heading_open tokens of the parsed document; the text
   of such a heading is the content of the next token *)
HeadingOpens == {i \in 1..Len(document) : document[i].type = "heading_open"}

(* the Heading record of the heading that opens at token i *)
HeadingAt(i) == headings[Cardinality({j \in HeadingOpens : j <= i})]

(* C14: after the token update the text of every non-excluded heading is
   exactly "{number}. {original text}" and the text of every excluded heading
   is unchanged; every heading is prefixed at most once, also when two
   headings of the document have identical text. *)
C14_HeadingTextPrefixedOnce ==
    last_call.op = "_update_tokens" =>
        /\ Len(tokens) = Len(document)
        /\ \A i \in HeadingOpens :
               LET text == document[i + 1].content
               IN  IF ExcludedByConfig(text)
                   THEN tokens[i + 1].content = text
                   ELSE /\ HeadingAt(i).number # <<>>
                        /\ tokens[i + 1].content =
                               HeadingAt(i).number \o <<".", " ">> \o text

(* two numbered headings with the same text, each with its own prefix *)
C14_Witness ==
    /\ last_call.op = "_update_tokens"
    /\ \E i \in HeadingOpens : \E j \in HeadingOpens :
           /\ i < j
           /\ document[i + 1].content = document[j + 1].content
           /\ ~ExcludedByConfig(document[i + 1].content)
           /\ tokens[i + 1].content # tokens[j + 1].content
           /\ tokens[i + 1].content # document[i + 1].content

(* the caption of a table comment "<!-- label: caption -->" *)
CommentCaption(content) == SubSeq(content, 6, Len(content) - 2)

(* C15: every figure that received a sequence number is rewritten to embed
   label, scope number, ".", sequence number, ": " and the original caption
   (the alt text of an image, the comment of a table); a figure whose
   figure_number is 0 is left unchanged. *)
C15_FigureCaptionRewritten ==
    last_call.op \in {"_update_tokens", "update_tokens"} =>
        \A k \in 1..Len(figures) :
            LET f == figures[k]
                i == f.token_index + 1
                n == f.chapter_number \o <<".">> \o str(f.figure_number)
            IN  IF f.figure_number > 0
                THEN /\ f.type = "figure" =>
                            /\ tokens[i].alt =
                                   <<FIGURE_LABEL>> \o n \o <<":", " ">>
                                       \o document[i].alt
                            /\ tokens[i].content = document[i].content
                     /\ f.type = "table" =>
                            /\ tokens[i].content =
                                   <<"<!--", " ", TABLE_LABEL>> \o n
                                       \o <<":", " ">>
                                       \o CommentCaption(document[i].content)
                                       \o <<" ", "-->">>
                ELSE tokens[i] = document[i]

(* an image and a table of one document, both numbered and rewritten *)
C15_Witness ==
    /\ last_call.op = "_update_tokens"
    /\ \E k \in 1..Len(figures) :
           /\ figures[k].type = "figure"
           /\ figures[k].figure_number > 0
           /\ tokens[figures[k].token_index + 1].alt
                  # document[figures[k].token_index + 1].alt
    /\ \E k \in 1..Len(figures) :
           /\ figures[k].type = "table"
           /\ figures[k].figure_number > 0
           /\ tokens[figures[k].token_index + 1].content
                  # document[figures[k].token_index + 1].content

(* C20: a heading is excluded exactly when its stripped display text
   contains at least one entry of the excluded_headings list as a substring
   (containment, not equality); with an empty list no heading is excluded. *)
C20_ExcludedIffContainsEntry ==
    pc \in {"parsed", "numbered", "assigned", "updated"} =>
        /\ Len(headings) = Cardinality(HeadingOpens)
        /\ \A i \in HeadingOpens :
               HeadingAt(i).is_excluded
                   <=> ExcludedByConfig(strip(document[i + 1].content))
        /\ excluded_headings = <<>> =>
               \A k \in 1..Len(headings) : ~headings[k].is_excluded

(* a heading excluded by an entry that is a proper part of its text, next to
   a heading that is not excluded *)
C20_Witness ==
    /\ pc = "parsed"
    /\ \E k \in 1..Len(headings) :
           /\ headings[k].is_excluded
           /\ \A e \in 1..Len(excluded_headings) :
                  /\ excluded_headings[e] # headings[k].text
                  /\ excluded_headings[e] # <<>>
    /\ \E k \in 1..Len(headings) : ~headings[k].is_excluded

----------------------------------------------------------------------------
(* the value of a string of decimal digits *)
RECURSIVE ValueOf(_)
ValueOf(ds) ==
    IF Len(ds) = 0 THEN 0
    ELSE 10 * ValueOf(SubSeq(ds, 1, Len(ds) - 1))
             + (CHOOSE n \in 0..9 : str(n) = <<ds[Len(ds)]>>)

(* the characters behind the last "." of a dotted number *)
RECURSIVE LastPart(_)
LastPart(s) ==
    IF Len(s) = 0 \/ s[Len(s)] = "." THEN <<>>
    ELSE LastPart(SubSeq(s, 1, Len(s) - 1)) \o <<s[Len(s)]>>

LastComponent(s) == ValueOf(LastPart(s))

(* headings i < j, both numbered, of one level, and no numbered heading of
   a smaller level between them *)
SameLevelRun(hs, i, j) ==
    /\ i < j
    /\ ~hs[i].is_excluded /\ ~hs[j].is_excluded
    /\ hs[i].level = hs[j].level
    /\ \A m \in (i + 1)..(j - 1) :
           hs[m].is_excluded \/ hs[m].level >= hs[i].level

(* C21: for two non-excluded headings at the same level L with no
   non-excluded heading of a smaller level between them, the later heading's
   number has a strictly greater last component (exactly one more when no
   heading of level L stands between them), and all counters deeper than L
   are reset: the first level-(L+1) heading after the later one gets last
   component 1. *)
C21_SameLevelIncrements ==
    \A i \in 1..Len(headings) : \A j \in 1..Len(headings) :
        SameLevelRun(headings, i, j) =>
            /\ LastComponent(headings[j].number)
                   > LastComponent(headings[i].number)
            /\ (\A m \in (i + 1)..(j - 1) :
                    headings[m].is_excluded
                        \/ headings[m].level # headings[i].level)
               => LastComponent(headings[j].number)
                      = LastComponent(headings[i].number) + 1
            /\ \A k \in (j + 1)..Len(headings) :
                   (/\ ~headings[k].is_excluded
                    /\ headings[k].level = headings[j].level + 1
                    /\ \A m \in (j + 1)..(k - 1) :
                           headings[m].is_excluded
                               \/ headings[m].level # headings[k].level)
                   => LastComponent(headings[k].number) = 1

(* H1, H2, H1, H2: the second H1 is "2" and the H2 under it is "2.1" *)
C21_Witness ==
    /\ NoExclusions(headings)
    /\ LevelsOf(headings) = <<1, 2, 1, 2>>
    /\ headings[2].number = <<"1", ".", "1">>
    /\ headings[3].number = <<"2">>
    /\ headings[4].number = <<"2", ".", "1">>

----------------------------------------------------------------------------
(* C22: after process_headings has processed a non-excluded heading of level
   L, the counter list has length exactly L, its entry L-1 (0-based) is one
   more than before the step, or 1 when it was newly created, and every
   entry at an index below L-1 is unchanged by the step (a newly created one
   is 0); after a single level-1 heading the state is [1]. *)
C22_CounterListAfterHeading ==
    /\ [][(/\ pc = "headings"
           /\ Len(headings') = Len(headings) + 1
           /\ ~headings'[Len(headings')].is_excluded)
          => LET L   == headings'[Len(headings')].level
                 old == state.current_numbers
                 new == state'.current_numbers
             IN  /\ Len(new) = L
                 /\ new[L] = IF Len(old) >= L THEN old[L] + 1 ELSE 1
                 /\ \A d \in 1..(L - 1) :
                        new[d] = IF d <= Len(old) THEN old[d] ELSE 0]_vars
    /\ []((/\ Len(headings) = 1
           /\ headings[1].level = 1
           /\ ~headings[1].is_excluded)
          => state.current_numbers = <<1>>)

(* a level-2 heading after a level-4 heading: the list is cut from four
   entries to two and the second entry goes from 0 to 1 *)
C22_Witness ==
    /\ Len(headings) = 3
    /\ NoExclusions(headings)
    /\ LevelsOf(headings) = <<1, 4, 2>>
    /\ state.current_numbers = <<1, 1>>

----------------------------------------------------------------------------
(* the numbered headings of level d up to heading i that no later numbered
   heading (up to i) of a smaller level has closed: how often depth d was
   visited in the scope that heading i stands in *)
Visits(hs, i, d) ==
    Cardinality({k \in 1..i :
                    /\ ~hs[k].is_excluded
                    /\ hs[k].level = d
                    /\ \A m \in (k + 1)..i :
                           hs[m].is_excluded \/ hs[m].level >= d})

NonZero(n) == n > 0

(* the visits of the depths 1..level of heading i, the unvisited depths
   left out, joined by "." *)
VisitedNumber(hs, i) ==
    LET all  == [d \in 1..hs[i].level |-> Visits(hs, i, d)]
        kept == SelectSeq(all, NonZero)
    IN  join(DOT, [d \in 1..Len(kept) |-> str(kept[d])])

NumberedHeadings(hs) == {i \in 1..Len(hs) : ~hs[i].is_excluded}

(* C23: when a heading jumps more than one level deeper than the current
   counter list, the skipped depths are filled with 0 and contribute nothing
   to the rendered number (H1 then H3: the H3 is "1.1"); a zero among the
   first L counters occurs only at depths skipped by such a jump, and a
   skipped depth is incremented normally from 0 when a heading of that level
   is later encountered. *)
C23_SkippedDepthsAreZero ==
    /\ (NoExclusions(headings) /\ LevelsOf(headings) = <<1, 3>>) =>
           /\ headings[2].number = <<"1", ".", "1">>
           /\ state.current_numbers = <<1, 0, 1>>
    /\ \A i \in NumberedHeadings(headings) :
           headings[i].number = VisitedNumber(headings, i)
    /\ NumberedHeadings(headings) # {} =>
           LET last == MaxOf(NumberedHeadings(headings))
           IN  /\ Len(state.current_numbers) = headings[last].level
               /\ \A d \in 1..headings[last].level :
                      state.current_numbers[d] = Visits(headings, last, d)

(* H1, H3, then the skipped H2 and an H3 under it *)
C23_Witness ==
    /\ NoExclusions(headings)
    /\ LevelsOf(headings) = <<1, 3, 2, 3>>
    /\ NumbersOf(headings) =
           <<(<<"1">>), (<<"1", ".", "1">>), (<<"1", ".", "1">>),
             (<<"1", ".", "1", ".", "1">>)>>

----------------------------------------------------------------------------
(* C28: for every heading sequence with levels in 1..6 (including sequences
   that jump levels) processed from empty counters, no two non-excluded
   headings of the document receive the same number string. *)
C28_NumbersAreDistinct ==
    \A i \in NumberedHeadings(headings) :
        \A j \in NumberedHeadings(headings) :
            i # j => headings[i].number # headings[j].number

----------------------------------------------------------------------------
(* C24: the scope assigned to a figure depends only on that figure's source
   position and the heading sequence: it is the heading found by scanning
   the full heading sequence, whatever other figures are in the list and in
   whatever order the list presents them.  Here: every figure of the list
   has the chapter_number it gets when it is the only figure of the list. *)
C24_ScopeDependsOnPositionOnly ==
    \A i \in 1..Len(figures) :
        LET alone == assign_numbers(
                         FreshState, headings,
                         <<Figure(figures[i].type, figures[i].line_number)>>)
        IN  figures[i].chapter_number = alone.figures[1].chapter_number

----------------------------------------------------------------------------
(* C25: figures are numbered in document order: for two figures of the same
   kind in the same scope, the one with the smaller source position gets the
   smaller sequence number, whatever figures of the other kind are
   interleaved between them. *)
C25_NumberedInDocumentOrder ==
    \A i \in 1..Len(figures) : \A j \in 1..Len(figures) :
        (/\ figures[i].type = figures[j].type
         /\ figures[i].chapter_number = figures[j].chapter_number
         /\ figures[i].line_number < figures[j].line_number)
        => figures[i].figure_number < figures[j].figure_number

(* an image, a table and an image on three lines of one scope: the images
   are 1 and 2, the table between them is 1 *)
C25_Witness ==
    /\ Len(figures) = 3
    /\ figures[1].type = "figure" /\ figures[1].figure_number = 1
    /\ figures[2].type = "table" /\ figures[2].figure_number = 1
    /\ figures[3].type = "figure" /\ figures[3].figure_number = 2
    /\ figures[1].line_number < figures[2].line_number
    /\ figures[2].line_number < figures[3].line_number
    /\ figures[1].chapter_number = figures[3].chapter_number
    /\ figures[1].chapter_number = figures[2].chapter_number

----------------------------------------------------------------------------
(* the non-excluded level-1 headings standing at or before the line *)
ChapterHeadingsUpTo(hs, line) ==
    {g \in 1..Len(hs) :
        /\ ~hs[g].is_excluded
        /\ hs[g].level = 1
        /\ hs[g].line_number <= line}

(* C26: figure and table numbers restart when the chapter changes: in
   process_file, the first figure and the first table located after a
   non-excluded level-1 heading get sequence number 1, whatever figures
   appear earlier in the same document. *)
C26_RestartAtChapter ==
    \A i \in 1..Len(figures) :
        LET chapters == ChapterHeadingsUpTo(headings, figures[i].line_number)
        IN  (/\ chapters # {}
             /\ FirstOfKindUnder(headings, figures, i, MaxOf(chapters)))
            => figures[i].figure_number = 1

----------------------------------------------------------------------------
(* the fields of a heading other than number *)
HeadingFrame(h) ==
    <<h.level, h.text, h.raw_text, h.token_index, h.line_number,
      h.is_excluded>>

(* C27: process_headings changes nothing but the number field of
   non-excluded headings: level, text, raw_text, token_index, line_number
   and is_excluded of every heading are unchanged, each non-excluded
   heading's number is written exactly once, no heading is added or removed,
   and the figure numbering pass changes no heading at all. *)
C27_OnlyNumberIsWritten ==
    /\ [][pc # "start" =>
            /\ Len(headings') = Len(headings)
            /\ \A k \in 1..Len(headings) :
                   /\ HeadingFrame(headings'[k]) = HeadingFrame(headings[k])
                   /\ headings'[k].number # headings[k].number =>
                          /\ pc = "parsed" /\ pc' = "numbered"
                          /\ ~headings[k].is_excluded
                          /\ headings[k].number = <<>>
            /\ pc # "parsed" => headings' = headings]_vars
    /\ [](pc \in {"numbered", "assigned", "updated"} =>
            \A k \in 1..Len(headings) :
                (headings[k].number # <<>>) <=> ~headings[k].is_excluded)

(* after the figure pass: the heading has its number and is otherwise as
   parsed, the figure under it is numbered *)
C27_Witness ==
    /\ pc = "assigned"
    /\ Len(headings) = 1
    /\ ~headings[1].is_excluded
    /\ headings[1].number = <<"1">>
    /\ headings[1].text = <<"c", "A", "b">>
    /\ Len(figures) = 1
    /\ figures[1].figure_number = 1

----------------------------------------------------------------------------
(* the figures as parse_file delivers them, before any numbering *)
UnnumberedFigures(figs) ==
    [i \in 1..Len(figs) |-> Figure(figs[i].type, figs[i].line_number)]

(* NumberStates to start from: fresh, and states an earlier file leaves *)
StartStates ==
    {FreshState,
     NumberState(<<1>>, 1, 0),
     NumberState(<<2, 1>>, 0, 1),
     NumberState(<<0, 1>>, 1, 1),
     NumberState(<<1, 0, 2>>, 2, 2),
     NumberState(<<3, 0, 0, 0, 0, 1>>, 0, 0)}

(* process_headings and the figure loop of markchap.py *)
ByMarkchap(st, hs, figs) ==
    LET h == markchap_process_headings(st, hs)
        f == markchap_number_figures(h.state, h.headings, figs)
    IN  [headings |-> h.headings, figures |-> f.figures, state |-> f.state]

(* process_headings and assign_numbers of markchap_refactored.py *)
ByRefactored(st, hs, figs) ==
    LET h == process_headings(st, hs)
        f == assign_numbers(h.state, h.headings, figs)
    IN  [headings |-> h.headings, figures |-> f.figures, state |-> f.state]

(* C29: markchap.py and markchap_refactored.py number identically: for every
   heading sequence with levels 1..6 and every figure list with kinds
   figure/table, starting from equal NumberState, process_headings followed
   by the figure loop of process_file (markchap.py) and process_headings
   followed by assign_numbers (refactored) produce the same heading numbers,
   figure chapter_numbers, figure_numbers and final NumberState. *)
C29_VersionsNumberIdentically ==
    LET hs   == Unnumbered(headings)
        figs == UnnumberedFigures(figures)
    IN  /\ \A st \in StartStates :
               ByMarkchap(st, hs, figs) = ByRefactored(st, hs, figs)
        /\ pc = "figures" =>
               /\ headings = ByMarkchap(FreshState, hs, figs).headings
               /\ figures = ByMarkchap(FreshState, hs, figs).figures
               /\ state = ByMarkchap(FreshState, hs, figs).state

(* a level jump, an excluded heading and one figure of each kind *)
C29_Witness ==
    /\ pc = "figures"
    /\ Len(headings) = 2
    /\ headings[1].level = 3 /\ ~headings[1].is_excluded
    /\ headings[2].level = 1 /\ headings[2].is_excluded
    /\ Len(figures) = 2
    /\ figures[1].type = "table" /\ figures[1].figure_number = 1
    /\ figures[2].type = "figure" /\ figures[2].figure_number = 1
    /\ figures[2].chapter_number = <<"1">>

----------------------------------------------------------------------------
(* the heading the scan stops at for a position (1-based): the last heading
   at or before the line, the first heading when none is *)
Governing(hs, line) ==
    IF HeadingsUpTo(hs, line) = {} THEN 1 ELSE MaxOf(HeadingsUpTo(hs, line))

(* C30: in the figure-to-heading scan current_heading_index never decreases
   and, when the heading list is non-empty, stays within 0..len(headings)-1,
   so no heading is indexed out of range; with an empty heading list every
   figure gets chapter_number "1"; a figure whose governing heading has an
   empty number (an excluded heading) also gets "1". *)
C30_ScanStaysInRange ==
    /\ [][(pc = "figures" /\ pc' = "figures") =>
              current_heading_index' >= current_heading_index]_vars
    /\ [](Len(headings) > 0 =>
              current_heading_index \in 0..(Len(headings) - 1))
    /\ []((pc = "figures" /\ Len(headings) > 0 /\ Len(figures) > 0) =>
              current_heading_index + 1 =
                  Governing(headings, last_figure_line))
    /\ [](Len(headings) = 0 =>
              \A i \in 1..Len(figures) :
                  figures[i].chapter_number = <<"1">>)
    /\ [](Len(headings) > 0 =>
              \A i \in 1..Len(figures) :
                  LET g == Governing(headings, figures[i].line_number)
                  IN  /\ headings[g].number = <<>> =>
                             /\ headings[g].is_excluded
                             /\ figures[i].chapter_number = <<"1">>
                      /\ headings[g].number # <<>> =>
                             figures[i].chapter_number = headings[g].number)

(* the scan has moved from the first heading to the second, which is
   excluded and has no number; the figure under it got "1" *)
C30_Witness ==
    /\ pc = "figures"
    /\ Len(headings) = 2
    /\ ~headings[1].is_excluded
    /\ headings[2].is_excluded /\ headings[2].number = <<>>
    /\ current_heading_index = 1
    /\ Len(figures) = 2
    /\ figures[1].line_number = 3
    /\ figures[2].line_number = 5
    /\ figures[2].chapter_number = <<"1">>

====
